---- MODULE Spec2Model ----
(***************************************************************************)
(* Model of internal/postgres/details.go: the read operations of the       *)
(* package/version store (GetPackage, GetLatestPackage,                    *)
(* GetVersionForPackage, getVersions and its two wrappers, GetImports,     *)
(* GetImportedBy, GetLicenses) and the license helpers zipLicenseMetadata  *)
(* and compareLicenses.                                                    *)
(*                                                                         *)
(* Strings that the code or its SQL only tests for equality are TLA+       *)
(* strings.  Strings that are ordered (license file paths and types,       *)
(* module paths, package paths, prerelease tags) are tuples of byte        *)
(* values, compared bytewise as Go's < on strings does; the ORDER BY       *)
(* clauses of the queries are taken to compare text the same way.          *)
(***************************************************************************)
EXTENDS Integers, Sequences, FiniteSets, TLC

VARIABLES
    db,       \* the storage snapshot: [packages, imports, licenses]
    pc,       \* "idle", the name of the row loop being run, or "done"
    call,     \* the operation called and its arguments
    cursor,   \* the rows of the open cursor (sql.Rows), in delivery order
    pos,      \* how many rows of the cursor have been scanned
    acc,      \* the result being accumulated by the row loop
    ret,      \* what the operation returned: [val, isNil, err]
    queries,  \* number of storage accesses made by the call
    fault     \* what the storage did: "none", "norows", "query", "scan", "iter"

vars == <<db, pc, call, cursor, pos, acc, ret, queries, fault>>

----------------------------------------------------------------------------
(* Bounds of the model. *)

\* longest license list handed to zipLicenseMetadata
MaxLics == 3

----------------------------------------------------------------------------
(* Byte strings. *)

\* "/" as strings.Split's separator
Slash == 47

\* Go's a < b on strings: bytewise lexicographic order
StrLess(a, b) ==
    \E k \in 1..Len(b) :
        /\ k - 1 <= Len(a)
        /\ \A m \in 1..(k - 1) : a[m] = b[m]
        /\ \/ k = Len(a) + 1
           \/ k <= Len(a) /\ a[k] < b[k]

\* len(strings.Split(p, "/")): one more than the number of separators
Depth(p) == 1 + Cardinality({k \in DOMAIN p : p[k] = Slash})

\* "LICENSE"
sLICENSE == <<76, 73, 67, 69, 78, 83, 69>>
\* "a/LICENSE"
sA_LICENSE == <<97, 47>> \o sLICENSE
\* "a/b/LICENSE"
sAB_LICENSE == <<97, 47, 98, 47>> \o sLICENSE
\* "b/LICENSE"
sB_LICENSE == <<98, 47>> \o sLICENSE
\* "MIT"
sMIT == <<77, 73, 84>>
\* "BSD"
sBSD == <<66, 83, 68>>

LicensePaths == {sLICENSE, sA_LICENSE, sAB_LICENSE, sB_LICENSE}
LicenseTypes == {sMIT, sBSD}

\* all sequences over S of length at most n
SeqsUpTo(S, n) == UNION {[1..k -> S] : k \in 0..n}

----------------------------------------------------------------------------
(* Errors.  derrors.InvalidArgument and derrors.NotFound build classified  *)
(* errors; fmt.Errorf builds an error with no classification.              *)

ErrNil == "nil"
ErrInvalidArgument == "InvalidArgument"
ErrNotFound == "NotFound"
ErrPlain == "error"

\* a returned slice (nil and empty are both the empty sequence)
RetList(l, e) == [val |-> l, isNil |-> (l = <<>>), err |-> e]
\* a returned pointer
RetPtr(v) == [val |-> v, isNil |-> FALSE, err |-> ErrNil]
\* return nil, err
RetErr(e) == [val |-> <<>>, isNil |-> TRUE, err |-> e]

----------------------------------------------------------------------------
(* License metadata. *)

\* license.Metadata{Type, FilePath}
Metadata(t, p) == [Type |-> t, FilePath |-> p]

compareLicenses(i, j) ==
    IF Depth(i.FilePath) > Depth(j.FilePath) THEN TRUE
    ELSE IF StrLess(i.FilePath, j.FilePath) THEN TRUE
    ELSE StrLess(i.Type, j.Type)

\* data.Swap(i, j)
Swap(s, i, j) == [s EXCEPT ![i] = s[j], ![j] = s[i]]

\* the inner loop of insertion sort:
\*   for j := i; j > a && less(j, j-1); j-- { swap(j, j-1) }
RECURSIVE SinkLicense(_, _)
SinkLicense(s, j) ==
    IF j > 1 /\ compareLicenses(s[j], s[j - 1])
    THEN SinkLicense(Swap(s, j, j - 1), j - 1)
    ELSE s

\* the outer loop: for i := a + 1; i < b; i++
RECURSIVE InsertFrom(_, _)
InsertFrom(s, i) ==
    IF i > Len(s) THEN s ELSE InsertFrom(SinkLicense(s, i), i + 1)

\* sort.Slice(metadata, compareLicenses).  For slices of at most 6 elements
\* sort.Slice is a plain insertion sort in every Go release (the quicksort
\* and pdqsort paths start above 12 elements, the shell pass at 7).
SortLicenses(s) == InsertFrom(s, 2)

\* the zip loop: metadata[i] = {licenseTypes[i], licensePaths[i]}
ZipPairs(licenseTypes, licensePaths) ==
    [k \in 1..Len(licenseTypes) |-> Metadata(licenseTypes[k], licensePaths[k])]

\* zipLicenseMetadata without its length check: zips as far as both lists go
zipLicenseMetadataTruncating(licenseTypes, licensePaths) ==
    LET n == IF Len(licenseTypes) < Len(licensePaths)
             THEN Len(licenseTypes) ELSE Len(licensePaths)
    IN  RetList(SortLicenses(ZipPairs(SubSeq(licenseTypes, 1, n), licensePaths)),
                ErrNil)

zipLicenseMetadata(licenseTypes, licensePaths) ==
    IF Len(licenseTypes) # Len(licensePaths)
    THEN RetErr(ErrPlain)
    ELSE RetList(SortLicenses(ZipPairs(licenseTypes, licensePaths)), ErrNil)

----------------------------------------------------------------------------
(* The license helpers called on their own. *)

EmptyDB == [packages |-> {}, imports |-> {}, licenses |-> {}]

NoCall == [op |-> "none"]

InitLicense ==
    /\ db = EmptyDB
    /\ pc = "idle"
    /\ call = NoCall
    /\ cursor = <<>>
    /\ pos = 0
    /\ acc = <<>>
    /\ ret = RetErr(ErrNil)
    /\ queries = 0
    /\ fault = "none"

CallZipLicenseMetadata ==
    /\ pc = "idle"
    /\ \E licenseTypes \in SeqsUpTo(LicenseTypes, MaxLics),
          licensePaths \in SeqsUpTo(LicensePaths, MaxLics) :
        /\ call' = [op |-> "zipLicenseMetadata",
                    licenseTypes |-> licenseTypes, licensePaths |-> licensePaths]
        /\ ret' = zipLicenseMetadata(licenseTypes, licensePaths)
    /\ pc' = "done"
    /\ UNCHANGED <<db, cursor, pos, acc, queries, fault>>

CallCompareLicenses ==
    /\ pc = "idle"
    /\ \E ti \in LicenseTypes, pi \in LicensePaths,
          tj \in LicenseTypes, pj \in LicensePaths :
        /\ call' = [op |-> "compareLicenses",
                    i |-> Metadata(ti, pi), j |-> Metadata(tj, pj)]
        /\ ret' = [val |-> compareLicenses(Metadata(ti, pi), Metadata(tj, pj)),
                   isNil |-> FALSE, err |-> ErrNil]
    /\ pc' = "done"
    /\ UNCHANGED <<db, cursor, pos, acc, queries, fault>>

NextLicense == CallZipLicenseMetadata \/ CallCompareLicenses

SpecLicense == InitLicense /\ [][NextLicense]_vars

----------------------------------------------------------------------------
(* The storage snapshot.  db.packages holds the rows of the join           *)
(* versions |x| packages (vw_licensed_packages) |x| modules that every     *)
(* package query selects from, one record per (module, version, package).  *)
(* Of the columns the code only copies into its result (name, synopsis,    *)
(* readme_file_path, readme_contents, commit_time, documentation) the      *)
(* model carries name and readme_file_path.                                *)

\* module paths "m" and "m/v2" (one series, "m") and "n" (another series)
mM == <<109>>
mMv2 == <<109, 47, 118, 50>>
mN == <<110>>
\* package paths "m/v2/a", "m/b", "m/c"
pMv2a == <<109, 47, 118, 50, 47, 97>>
pMb == <<109, 47, 98>>
pMc == <<109, 47, 99>>
\* values of the prerelease column: "~" (on the release rows) and "beta"
preNone == <<126>>
preBeta == <<98, 101, 116, 97>>

PkgRow(path, module, series, suffix, name, version, major, minor, patch, pre, vtype, readme, ltypes, lpaths) ==
    [path |-> path, module_path |-> module, series_path |-> series,
     suffix |-> suffix, name |-> name, version |-> version, major |-> major,
     minor |-> minor, patch |-> patch, prerelease |-> pre,
     version_type |-> vtype, readme_file_path |-> readme,
     license_types |-> ltypes, license_paths |-> lpaths]

\* the rows the lookup operations are run against
LookupRows ==
    { PkgRow(pMv2a, mM, "m", "v2/a", "a", "v1.2.0", 1, 2, 0, preNone,
             "release", "README.md", <<sMIT>>, <<sLICENSE>>),
      PkgRow(pMv2a, mM, "m", "v2/a", "a", "v1.3.0-beta", 1, 3, 0, preBeta,
             "prerelease", "README.md", <<sMIT, sBSD>>, <<sLICENSE, sA_LICENSE>>),
      PkgRow(pMv2a, mMv2, "m", "a", "a", "v2.0.0", 2, 0, 0, preNone,
             "release", "README", <<sBSD>>, <<sLICENSE>>),
      PkgRow(pMv2a, mMv2, "m", "a", "a", "v1.2.0", 1, 2, 0, preNone,
             "release", "README", <<sBSD>>, <<sLICENSE>>),
      PkgRow(pMb, mM, "m", "b", "b", "v1.2.0", 1, 2, 0, preNone,
             "release", "README.md", <<sMIT>>, <<sA_LICENSE>>),
      PkgRow(pMc, mM, "m", "c", "c", "v1.2.0", 1, 2, 0, preNone,
             "release", "README.md", <<sMIT, sBSD>>, <<sLICENSE>>) }

\* the arguments the lookup operations are called with
LookupPaths == {<<>>, pMv2a, pMc}
LookupVersions == {"", "v1.2.0", "v2.0.0"}

\* internal.Package
Package(path, name, lics, suffix) ==
    [Path |-> path, Name |-> name, Licenses |-> lics, Suffix |-> suffix]

\* internal.VersionInfo
VersionInfo(module, version, readme, vtype) ==
    [ModulePath |-> module, Version |-> version, ReadmeFilePath |-> readme,
     VersionType |-> vtype]

\* internal.VersionedPackage
VersionedPackage(pkg, vi) == [Package |-> pkg, VersionInfo |-> vi]

----------------------------------------------------------------------------
(* GetPackage *)

\* WHERE p.path = $1 AND p.version = $2
GetPackageRows(path, version) ==
    {r \in db.packages : r.path = path /\ r.version = version}

\* the code after a successful row.Scan
GetPackageResult(r, path, version) ==
    LET lics == zipLicenseMetadata(r.license_types, r.license_paths) IN
    IF lics.err # ErrNil
    THEN RetErr(ErrPlain)
    ELSE RetPtr(VersionedPackage(
             Package(path, r.name, lics.val, r.suffix),
             VersionInfo(r.module_path, version, r.readme_file_path,
                         r.version_type)))

\* the argument check of GetPackage
GetPackageRejects(path, version) == path = <<>> \/ version = ""

\* what GetPackage returns for an empty path or version
GetPackageReject == RetErr(ErrInvalidArgument)

\* what GetPackage returns when row.Scan reports sql.ErrNoRows
GetPackageNoRows == RetErr(ErrNotFound)

\* GetPackage classifying every row.Scan error as NotFound
GetPackageScanErrAsNotFound == RetErr(ErrNotFound)

\* what GetPackage returns when row.Scan reports any other error
GetPackageScanErr == RetErr(ErrPlain)

GetPackage(path, version) ==
    /\ pc = "idle"
    /\ call' = [op |-> "GetPackage", path |-> path, version |-> version]
    /\ pc' = "done"
    /\ IF GetPackageRejects(path, version)
       THEN /\ ret' = GetPackageReject
            /\ UNCHANGED <<queries, fault, cursor, pos>>
       ELSE /\ queries' = queries + 1
            /\ \/ \* row.Scan fails with an error other than sql.ErrNoRows
                  /\ fault' = "fail"
                  /\ ret' = GetPackageScanErr
                  /\ UNCHANGED <<cursor, pos>>
               \/ \* sql.ErrNoRows
                  /\ GetPackageRows(path, version) = {}
                  /\ fault' = "norows"
                  /\ ret' = GetPackageNoRows
                  /\ UNCHANGED <<cursor, pos>>
               \/ \* LIMIT 1 with no ORDER BY: any matching row
                  \E r \in GetPackageRows(path, version) :
                      /\ fault' = "none"
                      /\ cursor' = <<r>>
                      /\ pos' = 1
                      /\ ret' = GetPackageResult(r, path, version)
    /\ UNCHANGED <<db, acc>>

----------------------------------------------------------------------------
(* GetLatestPackage *)

\* ORDER BY v.module_path, v.major DESC, v.minor DESC, v.patch DESC,
\* v.prerelease DESC: whether row a sorts strictly before row b
LatestOrder(a, b) ==
    \/ StrLess(a.module_path, b.module_path)
    \/ /\ a.module_path = b.module_path
       /\ \/ a.major > b.major
          \/ /\ a.major = b.major
             /\ \/ a.minor > b.minor
                \/ /\ a.minor = b.minor
                   /\ \/ a.patch > b.patch
                      \/ /\ a.patch = b.patch
                         /\ StrLess(b.prerelease, a.prerelease)

\* WHERE p.path = $1
GetLatestPackageRows(path) == {r \in db.packages : r.path = path}

\* ORDER BY ... LIMIT 1: the rows that nothing sorts before
GetLatestPackageFirst(path) ==
    {r \in GetLatestPackageRows(path) :
        \A o \in GetLatestPackageRows(path) : ~LatestOrder(o, r)}

\* the code after a successful row.Scan (VersionType is left unset)
GetLatestPackageResult(r, path) ==
    LET lics == zipLicenseMetadata(r.license_types, r.license_paths) IN
    IF lics.err # ErrNil
    THEN RetErr(ErrPlain)
    ELSE RetPtr(VersionedPackage(
             Package(path, r.name, lics.val, r.suffix),
             VersionInfo(r.module_path, r.version, r.readme_file_path, "")))

\* what GetLatestPackage returns for an empty path
GetLatestPackageReject == RetErr(ErrPlain)

\* what GetLatestPackage returns when row.Scan reports sql.ErrNoRows
GetLatestPackageNoRows == RetErr(ErrNotFound)

\* what GetLatestPackage returns when row.Scan reports any other error
GetLatestPackageScanErr == RetErr(ErrPlain)

GetLatestPackage(path) ==
    /\ pc = "idle"
    /\ call' = [op |-> "GetLatestPackage", path |-> path]
    /\ pc' = "done"
    /\ IF path = <<>>
       THEN /\ ret' = GetLatestPackageReject
            /\ UNCHANGED <<queries, fault, cursor, pos>>
       ELSE /\ queries' = queries + 1
            /\ \/ /\ fault' = "fail"
                  /\ ret' = GetLatestPackageScanErr
                  /\ UNCHANGED <<cursor, pos>>
               \/ /\ GetLatestPackageRows(path) = {}
                  /\ fault' = "norows"
                  /\ ret' = GetLatestPackageNoRows
                  /\ UNCHANGED <<cursor, pos>>
               \/ \E r \in GetLatestPackageFirst(path) :
                      /\ fault' = "none"
                      /\ cursor' = <<r>>
                      /\ pos' = 1
                      /\ ret' = GetLatestPackageResult(r, path)
    /\ UNCHANGED <<db, acc>>

----------------------------------------------------------------------------
(* GetVersionForPackage *)

\* WHERE p.version = $1 AND p.module_path IN
\*   (SELECT module_path FROM packages WHERE path = $2)
GetVersionForPackageRows(path, version) ==
    {r \in db.packages :
        /\ r.version = version
        /\ r.module_path \in {q.module_path : q \in {x \in db.packages : x.path = path}}}

\* ORDER BY path: every delivery order of S that is ascending by path
RECURSIVE OrderByPath(_)
OrderByPath(S) ==
    IF S = {} THEN {<<>>}
    ELSE UNION {{<<m>> \o t : t \in OrderByPath(S \ {m})} :
                m \in {x \in S : \A y \in S : ~StrLess(y.path, x.path)}}

\* internal.Version
Version(module, version, readme, vtype, pkgs) ==
    [ModulePath |-> module, Version |-> version, ReadmeFilePath |-> readme,
     VersionType |-> vtype, Packages |-> pkgs]

\* v := &internal.Version{}; v.Version = version
NewVersion(version) == Version(<<>>, version, "", "", <<>>)

\* the new package put in front instead of appended
PrependPackage(pkgs, pkg) == <<pkg>> \o pkgs

\* v.Packages = append(v.Packages, pkg)
AppendPackage(pkgs, pkg) == Append(pkgs, pkg)

\* the loop body after a successful Scan and zip
GetVersionForPackageFold(v, r, lics) ==
    Version(r.module_path, v.Version, r.readme_file_path, r.version_type,
            AppendPackage(v.Packages, Package(r.path, r.name, lics, r.suffix)))

GetVersionForPackageQuery(path, version) ==
    /\ pc = "idle"
    /\ call' = [op |-> "GetVersionForPackage", path |-> path, version |-> version]
    /\ queries' = queries + 1
    /\ \/ \* db.QueryContext fails
          /\ fault' = "query"
          /\ ret' = RetErr(ErrPlain)
          /\ pc' = "done"
          /\ UNCHANGED <<cursor, pos, acc>>
       \/ \E rows \in OrderByPath(GetVersionForPackageRows(path, version)) :
              /\ cursor' = rows
              /\ pos' = 0
              /\ acc' = NewVersion(version)
              /\ pc' = "GetVersionForPackage"
              /\ UNCHANGED <<ret, fault>>
    /\ UNCHANGED db

\* one turn of the loop: rows.Next() is true
GetVersionForPackageNext ==
    /\ pc = "GetVersionForPackage"
    /\ pos < Len(cursor)
    /\ \/ \* rows.Scan fails
          /\ fault' = "scan"
          /\ ret' = RetErr(ErrPlain)
          /\ pc' = "done"
          /\ UNCHANGED <<pos, acc>>
       \/ LET r == cursor[pos + 1]
              lics == zipLicenseMetadata(r.license_types, r.license_paths)
          IN  /\ pos' = pos + 1
              /\ IF lics.err # ErrNil
                 THEN /\ ret' = RetErr(ErrPlain)
                      /\ pc' = "done"
                      /\ UNCHANGED acc
                 ELSE /\ acc' = GetVersionForPackageFold(acc, r, lics.val)
                      /\ UNCHANGED <<ret, pc>>
              /\ UNCHANGED fault
    /\ UNCHANGED <<db, call, cursor, queries>>

\* rows.Next() is false: the code after the loop
GetVersionForPackageReturn ==
    /\ pc = "GetVersionForPackage"
    /\ \/ \* the rows are exhausted, rows.Err() is nil
          /\ pos = Len(cursor)
          /\ ret' = RetPtr(acc)
          /\ UNCHANGED fault
       \/ \* the cursor failed, rows.Err() is not nil
          /\ fault' = "iter"
          /\ ret' = RetErr(ErrPlain)
    /\ pc' = "done"
    /\ UNCHANGED <<db, call, cursor, pos, acc, queries>>

----------------------------------------------------------------------------
(* The lookup operations over every subset of LookupRows, and            *)
(* zipLicenseMetadata on its own.                                          *)

Init ==
    /\ db \in {[packages |-> P, imports |-> {}, licenses |-> {}] :
                  P \in SUBSET LookupRows}
    /\ pc = "idle"
    /\ call = NoCall
    /\ cursor = <<>>
    /\ pos = 0
    /\ acc = <<>>
    /\ ret = RetErr(ErrNil)
    /\ queries = 0
    /\ fault = "none"

CallGetPackage ==
    \E path \in LookupPaths, version \in LookupVersions : GetPackage(path, version)

CallGetLatestPackage ==
    \E path \in LookupPaths : GetLatestPackage(path)

CallGetVersionForPackage ==
    \E path \in LookupPaths, version \in LookupVersions :
        GetVersionForPackageQuery(path, version)

Next ==
    \/ CallGetPackage
    \/ CallGetLatestPackage
    \/ CallGetVersionForPackage
    \/ GetVersionForPackageNext
    \/ GetVersionForPackageReturn
    \/ CallZipLicenseMetadata

Spec == Init /\ [][Next]_vars

----------------------------------------------------------------------------
(* getVersions and its two callers *)

\* the row count of `LIMIT 10`
PseudoLimit == 10

\* internal.VersionTypeRelease, VersionTypePrerelease, VersionTypePseudo
VersionTypeRelease == "release"
VersionTypePrerelease == "prerelease"
VersionTypePseudo == "pseudo"

\* the series compared without the suffix
SameSeriesOnly(r, q) == r.series_path = q.series_path

\* (series_path, package_suffix) of row r equals that of row q
SameSeriesAndSuffix(r, q) ==
    r.series_path = q.series_path /\ r.suffix = q.suffix

\* WHERE (series_path, package_suffix) IN
\*   (SELECT series_path, package_suffix FROM package_series WHERE package_path = $1)
InSeriesOf(r, path) ==
    \E q \in db.packages : q.path = path /\ SameSeriesAndSuffix(r, q)

\* AND (version_type = $2 OR version_type = $3 ...)
HasVersionType(r, versionTypes) ==
    \E i \in DOMAIN versionTypes : r.version_type = versionTypes[i]

getVersionsRows(path, versionTypes) ==
    {r \in db.packages : InSeriesOf(r, path) /\ HasVersionType(r, versionTypes)}

\* ORDER BY module_path DESC, major DESC, minor DESC, patch DESC,
\* prerelease DESC: whether row a sorts strictly before row b
VersionsOrder(a, b) ==
    \/ StrLess(b.module_path, a.module_path)
    \/ /\ a.module_path = b.module_path
       /\ \/ a.major > b.major
          \/ /\ a.major = b.major
             /\ \/ a.minor > b.minor
                \/ /\ a.minor = b.minor
                   /\ \/ a.patch > b.patch
                      \/ /\ a.patch = b.patch
                         /\ StrLess(b.prerelease, a.prerelease)

\* every delivery order of S that the ORDER BY allows
RECURSIVE OrderByVersions(_)
OrderByVersions(S) ==
    IF S = {} THEN {<<>>}
    ELSE UNION {{<<m>> \o t : t \in OrderByVersions(S \ {m})} :
                m \in {x \in S : \A y \in S : ~VersionsOrder(y, x)}}

\* queryEnd is `LIMIT 10;` instead of `;`
PseudoOnly(versionTypes) ==
    Len(versionTypes) = 1 /\ versionTypes[1] = VersionTypePseudo

\* a query that never ends in LIMIT 10
QueryEndUnlimited(s, versionTypes) == s

\* the rows a query ending in queryEnd delivers of the ordered rows s
ApplyQueryEnd(s, versionTypes) ==
    IF PseudoOnly(versionTypes) /\ Len(s) > PseudoLimit
    THEN SubSeq(s, 1, PseudoLimit)
    ELSE s

\* what getVersions returns for an empty versionTypes
getVersionsReject == RetErr(ErrPlain)

\* versionHistory = append(versionHistory, &internal.VersionInfo{...})
AppendVersion(versionHistory, r) ==
    Append(versionHistory, VersionInfo(r.module_path, r.version, "", ""))

getVersions(op, path, versionTypes) ==
    /\ pc = "idle"
    /\ call' = [op |-> op, path |-> path, versionTypes |-> versionTypes]
    /\ IF Len(versionTypes) = 0
       THEN /\ ret' = getVersionsReject
            /\ pc' = "done"
            /\ UNCHANGED <<queries, fault, cursor, pos, acc>>
       ELSE /\ queries' = queries + 1
            /\ \/ \* db.QueryContext fails
                  /\ fault' = "query"
                  /\ ret' = RetErr(ErrPlain)
                  /\ pc' = "done"
                  /\ UNCHANGED <<cursor, pos, acc>>
               \/ \E s \in OrderByVersions(getVersionsRows(path, versionTypes)) :
                      /\ cursor' = ApplyQueryEnd(s, versionTypes)
                      /\ pos' = 0
                      /\ acc' = <<>>
                      /\ pc' = "getVersions"
                      /\ UNCHANGED <<ret, fault>>
    /\ UNCHANGED db

\* one turn of the loop: rows.Next() is true
getVersionsNext ==
    /\ pc = "getVersions"
    /\ pos < Len(cursor)
    /\ \/ \* rows.Scan fails
          /\ fault' = "scan"
          /\ ret' = RetErr(ErrPlain)
          /\ pc' = "done"
          /\ UNCHANGED <<pos, acc>>
       \/ /\ pos' = pos + 1
          /\ acc' = AppendVersion(acc, cursor[pos + 1])
          /\ UNCHANGED <<ret, pc, fault>>
    /\ UNCHANGED <<db, call, cursor, queries>>

\* rows.Next() is false: the code after the loop
getVersionsReturn ==
    /\ pc = "getVersions"
    /\ \/ \* the rows are exhausted, rows.Err() is nil
          /\ pos = Len(cursor)
          /\ ret' = RetList(acc, ErrNil)
          /\ UNCHANGED fault
       \/ \* the cursor failed, rows.Err() is not nil
          /\ fault' = "iter"
          /\ ret' = RetErr(ErrPlain)
    /\ pc' = "done"
    /\ UNCHANGED <<db, call, cursor, pos, acc, queries>>

GetTaggedVersionsForPackageSeries(path) ==
    getVersions("GetTaggedVersionsForPackageSeries", path,
                <<VersionTypeRelease, VersionTypePrerelease>>)

GetPseudoVersionsForPackageSeries(path) ==
    getVersions("GetPseudoVersionsForPackageSeries", path, <<VersionTypePseudo>>)

----------------------------------------------------------------------------
(* The version listings over two families of snapshots: a series with up   *)
(* to MaxPseudo pseudo-versions in each of its two modules, and every      *)
(* subset of a set of rows that differ in series, suffix and version type. *)

\* most pseudo-versions of one module in a snapshot
MaxPseudo == 6

\* package paths "m/a", "m", "m/v2", "n/a"
pMa == <<109, 47, 97>>
pM == <<109>>
pMv2 == <<109, 47, 118, 50>>
pNa == <<110, 47, 97>>
\* the prerelease tag of the i-th pseudo-version: its two-digit time stamp
Stamp(i) == <<48 + (i \div 10), 48 + (i % 10)>>
StampStr(i) == (IF i < 10 THEN "0" ELSE "") \o ToString(i)

\* a row of the packages table (no license columns are read by getVersions)
SeriesRow(path, module, series, suffix, version, major, minor, patch, pre, vtype) ==
    PkgRow(path, module, series, suffix, "a", version, major, minor, patch, pre,
           vtype, "", <<>>, <<>>)

\* the i-th pseudo-version of package "a" in module "m" (major 0) or "m/v2"
PseudoRow(module, i) ==
    LET major == IF module = mM THEN 0 ELSE 2
        patch == i % 2
    IN  SeriesRow(IF module = mM THEN pMa ELSE pMv2a, module, "m", "a",
                  "v" \o ToString(major) \o ".0." \o ToString(patch) \o "-" \o StampStr(i),
                  major, 0, patch, Stamp(i), VersionTypePseudo)

PseudoDistractors ==
    { SeriesRow(pMa, mM, "m", "a", "v1.2.0", 1, 2, 0, preNone, VersionTypeRelease),
      SeriesRow(pMb, mM, "m", "b", "v0.0.0-01", 0, 0, 0, Stamp(1), VersionTypePseudo) }

PseudoDBs ==
    { {PseudoRow(mM, i) : i \in 1..n1} \cup {PseudoRow(mMv2, i) : i \in 1..n2} \cup X :
        n1 \in 0..MaxPseudo, n2 \in 0..MaxPseudo, X \in SUBSET PseudoDistractors }

SeriesRows ==
    { SeriesRow(pMa, mM, "m", "a", "v1.0.0", 1, 0, 0, preNone, VersionTypeRelease),
      SeriesRow(pMa, mM, "m", "a", "v0.0.0-01", 0, 0, 0, Stamp(1), VersionTypePseudo),
      SeriesRow(pMv2a, mMv2, "m", "a", "v2.0.0", 2, 0, 0, preNone, VersionTypeRelease),
      SeriesRow(pMv2a, mMv2, "m", "a", "v2.1.0-beta", 2, 1, 0, preBeta, VersionTypePrerelease),
      SeriesRow(pMv2a, mM, "m", "v2/a", "v1.0.0", 1, 0, 0, preNone, VersionTypeRelease),
      SeriesRow(pMb, mM, "m", "b", "v1.0.0", 1, 0, 0, preNone, VersionTypeRelease),
      SeriesRow(pM, mM, "m", "", "v1.0.0", 1, 0, 0, preNone, VersionTypeRelease),
      SeriesRow(pMv2, mMv2, "m", "", "v2.1.0-beta", 2, 1, 0, preBeta, VersionTypePrerelease),
      SeriesRow(pNa, mN, "n", "a", "v1.0.0", 1, 0, 0, preNone, VersionTypeRelease) }

\* the arguments getVersions is called with
VersionPaths == {<<>>, pMa, pMv2a, pM, pNa}
VersionTypeLists ==
    { <<>>, <<VersionTypeRelease>>, <<VersionTypePseudo, VersionTypePrerelease>> }

InitVersions ==
    /\ db \in {[packages |-> P, imports |-> {}, licenses |-> {}] :
                  P \in PseudoDBs \cup SUBSET SeriesRows}
    /\ pc = "idle"
    /\ call = NoCall
    /\ cursor = <<>>
    /\ pos = 0
    /\ acc = <<>>
    /\ ret = RetErr(ErrNil)
    /\ queries = 0
    /\ fault = "none"

CallGetTaggedVersionsForPackageSeries ==
    \E path \in VersionPaths : GetTaggedVersionsForPackageSeries(path)

CallGetPseudoVersionsForPackageSeries ==
    \E path \in VersionPaths : GetPseudoVersionsForPackageSeries(path)

CallGetVersions ==
    \E path \in VersionPaths, versionTypes \in VersionTypeLists :
        getVersions("getVersions", path, versionTypes)

NextVersions ==
    \/ CallGetTaggedVersionsForPackageSeries
    \/ CallGetPseudoVersionsForPackageSeries
    \/ CallGetVersions
    \/ getVersionsNext
    \/ getVersionsReturn

SpecVersions == InitVersions /\ [][NextVersions]_vars

----------------------------------------------------------------------------
(* GetImports.  db.imports holds the rows of the imports table.            *)

ImportRow(from_path, from_version, to_path, to_name) ==
    [from_path |-> from_path, from_version |-> from_version,
     to_path |-> to_path, to_name |-> to_name]

\* internal.Import
Import(name, path) == [Name |-> name, Path |-> path]

\* WHERE from_path = $1 AND from_version = $2
GetImportsRows(path, version) ==
    {r \in db.imports : r.from_path = path /\ r.from_version = version}

\* ORDER BY to_path, to_name: whether row a sorts strictly before row b
ImportsOrder(a, b) ==
    \/ StrLess(a.to_path, b.to_path)
    \/ a.to_path = b.to_path /\ StrLess(a.to_name, b.to_name)

RECURSIVE OrderByImports(_)
OrderByImports(S) ==
    IF S = {} THEN {<<>>}
    ELSE UNION {{<<m>> \o t : t \in OrderByImports(S \ {m})} :
                m \in {x \in S : \A y \in S : ~ImportsOrder(y, x)}}

GetImportsQuery(path, version) ==
    /\ pc = "idle"
    /\ call' = [op |-> "GetImports", path |-> path, version |-> version]
    /\ IF path = <<>> \/ version = ""
       THEN /\ ret' = RetErr(ErrInvalidArgument)
            /\ pc' = "done"
            /\ UNCHANGED <<queries, fault, cursor, pos, acc>>
       ELSE /\ queries' = queries + 1
            /\ \/ \* db.QueryContext fails
                  /\ fault' = "query"
                  /\ ret' = RetErr(ErrPlain)
                  /\ pc' = "done"
                  /\ UNCHANGED <<cursor, pos, acc>>
               \/ \E rows \in OrderByImports(GetImportsRows(path, version)) :
                      /\ cursor' = rows
                      /\ pos' = 0
                      /\ acc' = <<>>
                      /\ pc' = "GetImports"
                      /\ UNCHANGED <<ret, fault>>
    /\ UNCHANGED db

\* one turn of the loop: rows.Next() is true
GetImportsNext ==
    /\ pc = "GetImports"
    /\ pos < Len(cursor)
    /\ \/ \* rows.Scan fails
          /\ fault' = "scan"
          /\ ret' = RetErr(ErrPlain)
          /\ pc' = "done"
          /\ UNCHANGED <<pos, acc>>
       \/ /\ pos' = pos + 1
          /\ acc' = Append(acc, Import(cursor[pos + 1].to_name, cursor[pos + 1].to_path))
          /\ UNCHANGED <<ret, pc, fault>>
    /\ UNCHANGED <<db, call, cursor, queries>>

\* rows.Next() is false: `return imports, nil`, with no look at rows.Err()
GetImportsReturn ==
    /\ pc = "GetImports"
    /\ \/ \* the rows are exhausted
          /\ pos = Len(cursor)
          /\ UNCHANGED fault
       \/ \* the cursor failed, rows.Err() is not nil
          fault' = "iter"
    /\ ret' = RetList(acc, ErrNil)
    /\ pc' = "done"
    /\ UNCHANGED <<db, call, cursor, pos, acc, queries>>

----------------------------------------------------------------------------
(* GetImportedBy *)

\* SELECT DISTINCT ON (from_path) from_path ... WHERE to_path = $1
GetImportedByRows(path) == {r.from_path : r \in {x \in db.imports : x.to_path = path}}

\* ORDER BY from_path
RECURSIVE OrderByFromPath(_)
OrderByFromPath(S) ==
    IF S = {} THEN <<>>
    ELSE LET m == CHOOSE x \in S : \A y \in S : ~StrLess(y, x)
         IN  <<m>> \o OrderByFromPath(S \ {m})

GetImportedByQuery(path) ==
    /\ pc = "idle"
    /\ call' = [op |-> "GetImportedBy", path |-> path]
    /\ IF path = <<>>
       THEN /\ ret' = RetErr(ErrInvalidArgument)
            /\ pc' = "done"
            /\ UNCHANGED <<queries, fault, cursor, pos, acc>>
       ELSE /\ queries' = queries + 1
            /\ \/ \* db.QueryContext fails
                  /\ fault' = "query"
                  /\ ret' = RetErr(ErrPlain)
                  /\ pc' = "done"
                  /\ UNCHANGED <<cursor, pos, acc>>
               \/ /\ cursor' = OrderByFromPath(GetImportedByRows(path))
                  /\ pos' = 0
                  /\ acc' = <<>>
                  /\ pc' = "GetImportedBy"
                  /\ UNCHANGED <<ret, fault>>
    /\ UNCHANGED db

\* one turn of the loop: rows.Next() is true
GetImportedByNext ==
    /\ pc = "GetImportedBy"
    /\ pos < Len(cursor)
    /\ \/ \* rows.Scan fails
          /\ fault' = "scan"
          /\ ret' = RetErr(ErrPlain)
          /\ pc' = "done"
          /\ UNCHANGED <<pos, acc>>
       \/ /\ pos' = pos + 1
          /\ acc' = Append(acc, cursor[pos + 1])
          /\ UNCHANGED <<ret, pc, fault>>
    /\ UNCHANGED <<db, call, cursor, queries>>

\* rows.Next() is false: `return importedby, nil`, with no look at rows.Err()
GetImportedByReturn ==
    /\ pc = "GetImportedBy"
    /\ \/ \* the rows are exhausted
          /\ pos = Len(cursor)
          /\ UNCHANGED fault
       \/ \* the cursor failed, rows.Err() is not nil
          fault' = "iter"
    /\ ret' = RetList(acc, ErrNil)
    /\ pc' = "done"
    /\ UNCHANGED <<db, call, cursor, pos, acc, queries>>

----------------------------------------------------------------------------
(* GetLicenses.  db.licenses holds the rows of the join                    *)
(* licenses |x| package_licenses |x| packages.                             *)

LicenseRow(path, version, type, file_path, contents) ==
    [path |-> path, version |-> version, type |-> type,
     file_path |-> file_path, contents |-> contents]

\* license.License (Metadata is embedded)
License(type, file_path, contents) ==
    [Type |-> type, FilePath |-> file_path, Contents |-> contents]

\* WHERE p.path = $1 AND p.version = $2
GetLicensesRows(pkgPath, version) ==
    {r \in db.licenses : r.path = pkgPath /\ r.version = version}

\* ORDER BY l.file_path
RECURSIVE OrderByFilePath(_)
OrderByFilePath(S) ==
    IF S = {} THEN {<<>>}
    ELSE UNION {{<<m>> \o t : t \in OrderByFilePath(S \ {m})} :
                m \in {x \in S : \A y \in S : ~StrLess(y.file_path, x.file_path)}}

GetLicensesQuery(pkgPath, version) ==
    /\ pc = "idle"
    /\ call' = [op |-> "GetLicenses", path |-> pkgPath, version |-> version]
    /\ IF pkgPath = <<>> \/ version = ""
       THEN /\ ret' = RetErr(ErrInvalidArgument)
            /\ pc' = "done"
            /\ UNCHANGED <<queries, fault, cursor, pos, acc>>
       ELSE /\ queries' = queries + 1
            /\ \/ \* db.QueryContext fails
                  /\ fault' = "query"
                  /\ ret' = RetErr(ErrPlain)
                  /\ pc' = "done"
                  /\ UNCHANGED <<cursor, pos, acc>>
               \/ \E rows \in OrderByFilePath(GetLicensesRows(pkgPath, version)) :
                      /\ cursor' = rows
                      /\ pos' = 0
                      /\ acc' = <<>>
                      /\ pc' = "GetLicenses"
                      /\ UNCHANGED <<ret, fault>>
    /\ UNCHANGED db

\* one turn of the loop: rows.Next() is true
GetLicensesNext ==
    /\ pc = "GetLicenses"
    /\ pos < Len(cursor)
    /\ \/ \* rows.Scan fails
          /\ fault' = "scan"
          /\ ret' = RetErr(ErrPlain)
          /\ pc' = "done"
          /\ UNCHANGED <<pos, acc>>
       \/ LET r == cursor[pos + 1]
          IN  /\ pos' = pos + 1
              /\ acc' = Append(acc, License(r.type, r.file_path, r.contents))
              /\ UNCHANGED <<ret, pc, fault>>
    /\ UNCHANGED <<db, call, cursor, queries>>

\* rows.Next() is false: sort.Slice and `return licenses, nil`, with no look
\* at rows.Err()
GetLicensesReturn ==
    /\ pc = "GetLicenses"
    /\ \/ \* the rows are exhausted
          /\ pos = Len(cursor)
          /\ UNCHANGED fault
       \/ \* the cursor failed, rows.Err() is not nil
          fault' = "iter"
    /\ ret' = RetList(SortLicenses(acc), ErrNil)
    /\ pc' = "done"
    /\ UNCHANGED <<db, call, cursor, pos, acc, queries>>

----------------------------------------------------------------------------
(* The five multi-row operations over small snapshots.                     *)

\* import paths and names "fmt" and "os"
pFmt == <<102, 109, 116>>
pOs == <<111, 115>>

RowsPackages ==
    { PkgRow(pMa, mM, "m", "a", "a", "v1.0.0", 1, 0, 0, preNone,
             "release", "README.md", <<sMIT>>, <<sLICENSE>>),
      PkgRow(pMb, mM, "m", "b", "b", "v1.0.0", 1, 0, 0, preNone,
             "release", "README.md", <<sMIT, sBSD>>, <<sLICENSE, sA_LICENSE>>) }

RowsImports ==
    { ImportRow(pMa, "v1.0.0", pFmt, pFmt),
      ImportRow(pMa, "v1.0.0", pOs, pOs),
      ImportRow(pMb, "v1.0.0", pFmt, pFmt) }

RowsLicenses ==
    { LicenseRow(pMa, "v1.0.0", sMIT, sLICENSE, "mit"),
      LicenseRow(pMa, "v1.0.0", sBSD, sA_LICENSE, "bsd"),
      LicenseRow(pMa, "v1.0.0", sMIT, sAB_LICENSE, "mit") }

\* the arguments the operations are called with
RowsPaths == {<<>>, pMa, pFmt}
RowsVersions == {"", "v1.0.0"}

InitRows ==
    /\ db \in [packages : SUBSET RowsPackages, imports : SUBSET RowsImports,
               licenses : SUBSET RowsLicenses]
    /\ pc = "idle"
    /\ call = NoCall
    /\ cursor = <<>>
    /\ pos = 0
    /\ acc = <<>>
    /\ ret = RetErr(ErrNil)
    /\ queries = 0
    /\ fault = "none"

CallGetImports ==
    \E path \in RowsPaths, version \in RowsVersions : GetImportsQuery(path, version)

CallGetImportedBy ==
    \E path \in RowsPaths : GetImportedByQuery(path)

CallGetLicenses ==
    \E path \in RowsPaths, version \in RowsVersions : GetLicensesQuery(path, version)

CallRowsGetVersionForPackage ==
    \E path \in RowsPaths, version \in RowsVersions :
        GetVersionForPackageQuery(path, version)

CallRowsGetVersions ==
    \E path \in RowsPaths :
        \/ GetTaggedVersionsForPackageSeries(path)
        \/ GetPseudoVersionsForPackageSeries(path)

NextRows ==
    \/ CallGetImports
    \/ GetImportsNext
    \/ GetImportsReturn
    \/ CallGetImportedBy
    \/ GetImportedByNext
    \/ GetImportedByReturn
    \/ CallGetLicenses
    \/ GetLicensesNext
    \/ GetLicensesReturn
    \/ CallRowsGetVersionForPackage
    \/ GetVersionForPackageNext
    \/ GetVersionForPackageReturn
    \/ CallRowsGetVersions
    \/ getVersionsNext
    \/ getVersionsReturn

SpecRows == InitRows /\ [][NextRows]_vars

----------------------------------------------------------------------------
(* The composite key the license order is documented to be:                *)
(* depth descending, then FilePath ascending, then Type ascending.         *)

KeyLess(i, j) ==
    \/ Depth(i.FilePath) > Depth(j.FilePath)
    \/ /\ Depth(i.FilePath) = Depth(j.FilePath)
       /\ \/ StrLess(i.FilePath, j.FilePath)
          \/ i.FilePath = j.FilePath /\ StrLess(i.Type, j.Type)

\* C1: zipLicenseMetadata's list is ordered by (depth descending, FilePath
\* ascending, Type ascending), whatever the input order: no element is
\* followed by one that the composite key puts strictly before it.
C1_ZipSortedByKey ==
    (pc = "done" /\ call.op = "zipLicenseMetadata" /\ ret.err = ErrNil) =>
        \A a, b \in DOMAIN ret.val : a < b => ~KeyLess(ret.val[b], ret.val[a])

\* C2: compareLicenses(i, j) is true exactly when i is strictly before j
\* under the composite key (depth descending, FilePath ascending, Type
\* ascending), so it is never true for both (i, j) and (j, i).
C2_CompareIsKeyOrder ==
    (pc = "done" /\ call.op = "compareLicenses") =>
        /\ ret.val = KeyLess(call.i, call.j)
        /\ ~(ret.val /\ compareLicenses(call.j, call.i))

----------------------------------------------------------------------------
(* The version order of section 4.1 of the specification: module path      *)
(* descending, then major, minor, patch and prerelease descending.         *)

Sec41Before(a, b) ==
    \/ StrLess(b.module_path, a.module_path)
    \/ /\ a.module_path = b.module_path
       /\ \/ a.major > b.major
          \/ a.major = b.major /\ a.minor > b.minor
          \/ a.major = b.major /\ a.minor = b.minor /\ a.patch > b.patch
          \/ /\ a.major = b.major /\ a.minor = b.minor /\ a.patch = b.patch
             /\ StrLess(b.prerelease, a.prerelease)

\* whether the license lists of a row differ in length
Mismatched(r) == Len(r.license_types) # Len(r.license_paths)

\* C3: GetLatestPackage returns the row that is first under the section 4.1
\* order (module path descending, then major, minor, patch, prerelease
\* descending) among the rows that share the package path.
C3_LatestIsFirstInSec41Order ==
    (pc = "done" /\ call.op = "GetLatestPackage" /\ fault = "none" /\ pos = 1) =>
        \A o \in GetLatestPackageRows(call.path) : ~Sec41Before(o, cursor[1])

\* C5: GetPackage with an empty path or version and GetLatestPackage with an
\* empty path return nil and an InvalidArgument error, without any storage
\* access.
C5_EmptyInputIsInvalidArgument ==
    (/\ pc = "done"
     /\ \/ call.op = "GetPackage" /\ (call.path = <<>> \/ call.version = "")
        \/ call.op = "GetLatestPackage" /\ call.path = <<>>) =>
        /\ ret.err = ErrInvalidArgument
        /\ ret.isNil
        /\ queries = 0

\* C7: zipLicenseMetadata on lists of different lengths returns an error and
\* a nil list, and GetPackage, GetLatestPackage and GetVersionForPackage,
\* having scanned such a row, return nil and an error, whatever packages
\* were assembled before it.
C7_LengthMismatchFails ==
    /\ (/\ pc = "done"
        /\ call.op = "zipLicenseMetadata"
        /\ Len(call.licenseTypes) # Len(call.licensePaths)) =>
           /\ ret.isNil
           /\ ret.val = <<>>
           /\ ret.err # ErrNil
    /\ (/\ pc = "done"
        /\ call.op \in {"GetPackage", "GetLatestPackage", "GetVersionForPackage"}
        /\ \E k \in 1..pos : Mismatched(cursor[k])) =>
           /\ ret.isNil
           /\ ret.val = <<>>
           /\ ret.err # ErrNil

\* a call of GetVersionForPackage that met the mismatched row after it had
\* assembled a package
C7_Witness ==
    /\ pc = "done"
    /\ call.op = "GetVersionForPackage"
    /\ pos = 2
    /\ Mismatched(cursor[2])
    /\ Len(acc.Packages) = 1
    /\ ret.isNil

\* C8: in GetPackage and GetLatestPackage a lookup that reached the storage
\* returns NotFound exactly when the storage reported zero rows, and any
\* other storage failure returns nil with an error that is not NotFound.
C8_NotFoundIsDistinct ==
    (/\ pc = "done"
     /\ call.op \in {"GetPackage", "GetLatestPackage"}
     /\ queries = 1) =>
        /\ (fault = "norows") <=> (ret.err = ErrNotFound)
        /\ fault = "norows" => ret.isNil
        /\ fault = "fail" => (ret.isNil /\ ret.err \notin {ErrNil, ErrNotFound})
        /\ ret.err = ErrNotFound =>
              IF call.op = "GetPackage"
              THEN GetPackageRows(call.path, call.version) = {}
              ELSE GetLatestPackageRows(call.path) = {}

\* both outcomes happen for the same arguments: here the storage failed on a
\* lookup that no row matches
C8_Witness ==
    /\ pc = "done"
    /\ call.op = "GetLatestPackage"
    /\ queries = 1
    /\ fault = "fail"
    /\ GetLatestPackageRows(call.path) = {}
    /\ ret.err = ErrPlain

\* the package GetVersionForPackage builds from row r
PackageOfRow(r) ==
    Package(r.path, r.name,
            zipLicenseMetadata(r.license_types, r.license_paths).val, r.suffix)

\* C10: GetVersionForPackage returns one Version whose Packages are the
\* rows of the stream in arrival order, one package per row; for an empty
\* stream it returns, with no error, a Version holding only the version
\* string.  It succeeds whenever the storage does not fail and every row's
\* license lists agree in length.
C10_FoldKeepsArrivalOrder ==
    (pc = "done" /\ call.op = "GetVersionForPackage") =>
        /\ ret.err = ErrNil =>
              /\ ~ret.isNil
              /\ ret.val.Version = call.version
              /\ ret.val.Packages = [k \in 1..Len(cursor) |-> PackageOfRow(cursor[k])]
              /\ cursor = <<>> =>
                    ret.val = [ModulePath |-> <<>>, Version |-> call.version,
                               ReadmeFilePath |-> "", VersionType |-> "",
                               Packages |-> <<>>]
        /\ (fault = "none" /\ \A k \in 1..Len(cursor) : ~Mismatched(cursor[k])) =>
              ret.err = ErrNil

\* a stream of three rows, two of them with the same path, folded
C10_Witness ==
    /\ pc = "done"
    /\ call.op = "GetVersionForPackage"
    /\ ret.err = ErrNil
    /\ Len(cursor) = 3
    /\ Len(ret.val.Packages) = 3
    /\ ret.val.Packages[2].Path = ret.val.Packages[3].Path

\* the empty stream
C10_WitnessEmpty ==
    /\ pc = "done"
    /\ call.op = "GetVersionForPackage"
    /\ ret.err = ErrNil
    /\ cursor = <<>>
    /\ db.packages # {}

----------------------------------------------------------------------------
(* Claims about the version listings. *)

\* the rows of the series of the package at `path`: those that share the
\* (series_path, suffix) pair of a row whose package path is `path`
SeriesOf(path) ==
    {r \in db.packages :
        \E q \in db.packages :
            q.path = path /\ q.series_path = r.series_path /\ q.suffix = r.suffix}

\* the pseudo-versions of the series of the package at `path`
PseudoOf(path) == {r \in SeriesOf(path) : r.version_type = "pseudo"}

\* the rows of S that a returned VersionInfo stands for
RowsOf(S, vi) ==
    {r \in S : r.module_path = vi.ModulePath /\ r.version = vi.Version}

\* how many rows of S sort strictly before r in the section 4.1 order
Rank(S, r) == Cardinality({o \in S : Sec41Before(o, r)})

\* C4: GetPseudoVersionsForPackageSeries returns at most 10 entries: of the
\* n matching pseudo-versions exactly the first min(10, n) in the section
\* 4.1 order, in that order (the k-th entry is the row that k-1 matching
\* rows sort before).
C4_PseudoIsFirstTenInOrder ==
    (pc = "done" /\ call.op = "GetPseudoVersionsForPackageSeries") =>
        /\ fault = "none" => ret.err = ErrNil
        /\ ret.err = ErrNil =>
              LET M == PseudoOf(call.path)
                  n == Cardinality(M)
              IN  /\ Len(ret.val) <= 10
                  /\ Len(ret.val) = IF n < 10 THEN n ELSE 10
                  /\ \A k \in 1..Len(ret.val) :
                        \E r \in RowsOf(M, ret.val[k]) : Rank(M, r) = k - 1

\* a series with more than 10 pseudo-versions, spread over both modules,
\* listed
C4_Witness ==
    /\ pc = "done"
    /\ call.op = "GetPseudoVersionsForPackageSeries"
    /\ ret.err = ErrNil
    /\ Cardinality(PseudoOf(call.path)) > 10
    /\ Len(ret.val) = 10
    /\ ret.val[1].ModulePath = mMv2
    /\ ret.val[10].ModulePath = mM
    /\ \E r \in PseudoOf(call.path) : r.module_path = mMv2 /\ r.patch = 0

\* the (module path, version) pairs of a returned list
Returned == {<<ret.val[k].ModulePath, ret.val[k].Version>> : k \in DOMAIN ret.val}

\* C9: getVersions returns a version exactly when its package has the
\* (series_path, suffix) pair of the package at the target path and its
\* version type is among versionTypes (whenever LIMIT 10 does not cut the
\* list); an empty suffix matches only an empty suffix.
C9_ExactlyTheSeries ==
    (/\ pc = "done"
     /\ call.op \in {"GetTaggedVersionsForPackageSeries",
                     "GetPseudoVersionsForPackageSeries", "getVersions"}
     /\ Len(call.versionTypes) > 0) =>
        /\ fault = "none" => ret.err = ErrNil
        /\ ret.err = ErrNil =>
              LET T == {call.versionTypes[i] : i \in DOMAIN call.versionTypes}
                  M == {r \in SeriesOf(call.path) : r.version_type \in T}
              IN  (call.op = "GetPseudoVersionsForPackageSeries" => Cardinality(M) <= 10) =>
                      /\ Returned = {<<r.module_path, r.version>> : r \in M}
                      /\ Len(ret.val) = Cardinality(M)

\* the tagged versions of "m/a" listed from a snapshot that also holds the
\* same suffix in module "m/v2", another suffix, the empty suffix, another
\* series and a pseudo-version: the list is the two tagged "a" rows of series "m"
C9_Witness ==
    /\ pc = "done"
    /\ call.op = "GetTaggedVersionsForPackageSeries"
    /\ call.path = pMa
    /\ ret.err = ErrNil
    /\ {<<r.module_path, r.suffix>> : r \in db.packages} =
          {<<mM, "a">>, <<mMv2, "a">>, <<mM, "b">>, <<mM, "">>, <<mMv2, "">>,
           <<mN, "a">>, <<mM, "v2/a">>}
    /\ Returned = {<<mMv2, "v2.1.0-beta">>, <<mMv2, "v2.0.0">>, <<mM, "v1.0.0">>}

\* the versions of the module root "m" (empty suffix) listed: only rows with
\* an empty suffix
C9_WitnessEmptySuffix ==
    /\ pc = "done"
    /\ call.op = "GetTaggedVersionsForPackageSeries"
    /\ call.path = pM
    /\ ret.err = ErrNil
    /\ Cardinality(db.packages) = 9
    /\ Returned = {<<mMv2, "v2.1.0-beta">>, <<mM, "v1.0.0">>}

----------------------------------------------------------------------------
(* Claims about the multi-row operations. *)

\* C6: whenever row iteration fails partway (a Scan error, or an iteration
\* error the cursor reports after some rows were read) in
\* GetVersionForPackage, getVersions, GetImports, GetImportedBy or
\* GetLicenses, the operation returns nil with a non-nil error.
C6_NoPartialResultOnError ==
    (/\ pc = "done"
     /\ call.op \in {"GetVersionForPackage", "GetTaggedVersionsForPackageSeries",
                     "GetPseudoVersionsForPackageSeries", "getVersions",
                     "GetImports", "GetImportedBy", "GetLicenses"}
     /\ (fault = "scan" \/ (fault = "iter" /\ pos > 0))) =>
        /\ ret.isNil
        /\ ret.err # ErrNil

\* C11: getVersions called with an empty versionTypes returns nil and an
\* InvalidArgument error, and issues no storage query.
C11_EmptyVersionTypesIsInvalidArgument ==
    (pc = "done" /\ call.op = "getVersions" /\ Len(call.versionTypes) = 0) =>
        /\ ret.isNil
        /\ ret.val = <<>>
        /\ queries = 0
        /\ ret.err = ErrInvalidArgument

====
